---------------------------- MODULE Spec2Model ----------------------------
(***************************************************************************)
(* A model of the two command line programs of team-stats:                 *)
(*   slack-list-emojis.py  (program "emoji": emoji reaction totals)        *)
(*   slack-msg-count.py    (program "count": message / reply counts)       *)
(* Both resolve a channel name, page through the channel history, and      *)
(* print a sorted report.                                                   *)
(*                                                                         *)
(* Conventions.  A Python string is a sequence of symbols, so that         *)
(* lstrip and the f-string formatting are computed, not assumed.  None,    *)
(* the empty string and the empty list are all the empty sequence <<>>,    *)
(* which is exactly the set of values Python's `not x` treats alike here.  *)
(* An optional number (a timestamp, --top) is <<>> or <<n>>.  A Python     *)
(* dict (and Counter) is the sequence of its <<key, value>> items in       *)
(* insertion order.                                                        *)
(***************************************************************************)
EXTENDS Integers, Sequences, FiniteSets, TLC

None == <<>>

\* Python truthiness of a string / list / None
Truthy(x) == x # None

\* Python truthiness of an optional number: None and 0 are both falsy
TruthyNum(x) == x # None /\ x[1] # 0

\* a or b
PyOr(a, b) == IF Truthy(a) THEN a ELSE b

-----------------------------------------------------------------------------
(* Bounds of the model *)

\* messages in a channel history
MaxMsgs == 3

\* pages of a paged listing
MaxPages == 2

\* channels the caller has joined
MaxChannels == 3

\* the count of one reaction on one message
MaxReactionCount == 2

\* the largest --top
MaxTop == 3

\* calendar days before and after 1970-01-01 given as --date-from / --date-to
MaxDay == 1

\* get_user_display calls of the unit harness
MaxLookups == 3

-----------------------------------------------------------------------------
(* dict / Counter *)

DictHas(d, k) == \E i \in 1..Len(d) : d[i][1] = k

DictGet(d, k) == d[CHOOSE i \in 1..Len(d) : d[i][1] = k][2]

DictSet(d, k, v) ==
    IF DictHas(d, k)
    THEN [i \in 1..Len(d) |-> IF d[i][1] = k THEN <<k, v>> ELSE d[i]]
    ELSE Append(d, <<k, v>>)

DictKeys(d) == {d[i][1] : i \in 1..Len(d)}

\* Counter.__getitem__: a missing key reads as 0
CounterGet(c, k) == IF DictHas(c, k) THEN DictGet(c, k) ELSE 0

-----------------------------------------------------------------------------
(* str.lstrip('#'): every leading '#' is removed *)

\* a slip: one leading '#' removed
LStripOnce(s) == IF s # <<>> /\ Head(s) = "#" THEN Tail(s) ELSE s

RECURSIVE lstrip(_)
lstrip(s) == IF s # <<>> /\ Head(s) = "#" THEN lstrip(Tail(s)) ELSE s

-----------------------------------------------------------------------------
(* datetime *)

\* datetime.strptime(s, '%Y-%m-%d') of the calendar day `day` (days since
\* 1970-01-01): midnight of that day
strptime(day) == [day |-> day, hour |-> 0, minute |-> 0, second |-> 0]

\* date_to.replace(hour=23, minute=59, second=59)
EndOfDay(dt) == [dt EXCEPT !.hour = 23, !.minute = 59, !.second = 59]

\* naive datetime.timestamp(): local wall clock to epoch seconds, the local
\* zone being utcoffset seconds east of UTC
Timestamp(dt, utcoffset) ==
    dt.day * (24 * 3600) + dt.hour * 3600 + dt.minute * 60 + dt.second - utcoffset

-----------------------------------------------------------------------------
(* sorted(), slices *)

\* the item is placed after every item whose key is <= its own: stable
RECURSIVE InsertByKey(_, _, _)
InsertByKey(s, x, k) ==
    IF s = <<>> THEN <<x>>
    ELSE IF x[k] < Head(s)[k] THEN <<x>> \o s
    ELSE <<Head(s)>> \o InsertByKey(Tail(s), x, k)

\* sorted(s, key=lambda x: x[k]) with Python's 0-based k given 1-based
RECURSIVE sorted(_, _)
sorted(s, k) ==
    IF s = <<>> THEN <<>>
    ELSE InsertByKey(sorted(SubSeq(s, 1, Len(s) - 1), k), s[Len(s)], k)

\* s[start:] for any integer start
SliceFrom(s, start) ==
    LET n == Len(s)
        a == IF start < 0 THEN start + n ELSE start
        b == IF a < 0 THEN 0 ELSE IF a > n THEN n ELSE a
    IN  SubSeq(s, b + 1, n)

\* s[::-1]
Reversed(s) == [i \in 1..Len(s) |-> s[Len(s) + 1 - i]]

\* if args.top: sorted_results = sorted_results[-args.top:][::-1]
ApplyTop(sorted_results, top) ==
    IF TruthyNum(top) THEN Reversed(SliceFrom(sorted_results, 0 - top[1]))
    ELSE sorted_results

-----------------------------------------------------------------------------
(* slack-list-emojis.py: the body of the history loop *)

\* a slip: each reaction adds 1, whatever its count
RECURSIVE AddReactionsByOne(_, _)
AddReactionsByOne(counter, reactions) ==
    IF reactions = <<>> THEN counter
    ELSE LET r == Head(reactions)
         IN  AddReactionsByOne(DictSet(counter, r.name, CounterGet(counter, r.name) + 1),
                               Tail(reactions))

\* for reaction in message['reactions']:
\*     emoji_counter[reaction['name']] += reaction['count']
RECURSIVE AddReactions(_, _)
AddReactions(counter, reactions) ==
    IF reactions = <<>> THEN counter
    ELSE LET r == Head(reactions)
         IN  AddReactions(DictSet(counter, r.name, CounterGet(counter, r.name) + r.count),
                          Tail(reactions))

\* if 'reactions' in message: ...
EmojiMessage(counter, message) ==
    IF message.has_reactions THEN AddReactions(counter, message.reactions)
    ELSE counter

\* for message in result['messages']: ...
RECURSIVE EmojiPage(_, _)
EmojiPage(counter, messages) ==
    IF messages = <<>> THEN counter
    ELSE EmojiPage(EmojiMessage(counter, Head(messages)), Tail(messages))

-----------------------------------------------------------------------------
(* slack-msg-count.py: the body of the history loop *)

\* a slip: app_id taken before bot_id
ActorOfAppFirst(message) ==
    LET u1 == message.user
        u2 == IF ~Truthy(u1) THEN PyOr(message.app_id, message.bot_id) ELSE u1
        b2 == ~Truthy(u1)
        u3 == IF ~Truthy(u2) THEN <<"unknown">> ELSE u2
        b3 == IF ~Truthy(u2) THEN TRUE ELSE b2
    IN  [user_id |-> u3, is_bot |-> b3]

\* the user identifier of a message and whether it is a bot
ActorOf(message) ==
    LET u1 == message.user
        u2 == IF ~Truthy(u1) THEN PyOr(message.bot_id, message.app_id) ELSE u1
        b2 == ~Truthy(u1)
        u3 == IF ~Truthy(u2) THEN <<"unknown">> ELSE u2
        b3 == IF ~Truthy(u2) THEN TRUE ELSE b2
    IN  [user_id |-> u3, is_bot |-> b3]

\* is_reply = 'thread_ts' in message and message.get('thread_ts') != message.get('ts')
IsReply(message) == message.has_thread_ts /\ message.thread_ts # message.ts

\* a slip: the last elif (no flag given) left out
ShouldCountNoDefault(count_replies, count_messages, is_reply) ==
    IF count_replies /\ count_messages THEN TRUE
    ELSE IF count_replies /\ is_reply THEN TRUE
    ELSE IF count_messages /\ ~is_reply THEN TRUE
    ELSE FALSE

\* the should_count chain of if / elif
ShouldCount(count_replies, count_messages, is_reply) ==
    IF count_replies /\ count_messages THEN TRUE
    ELSE IF count_replies /\ is_reply THEN TRUE
    ELSE IF count_messages /\ ~is_reply THEN TRUE
    ELSE IF ~count_replies /\ ~count_messages THEN TRUE
    ELSE FALSE

\* one iteration of `for message in result['messages']`; st holds
\* total_count, user_counts and user_is_bot
CountMessage(st, message, count_replies, count_messages, per_user) ==
    LET a == ActorOf(message)
    IN  IF ShouldCount(count_replies, count_messages, IsReply(message))
        THEN IF per_user
             THEN LET known == DictHas(st.user_counts, a.user_id)
                      uc == IF known THEN st.user_counts
                            ELSE DictSet(st.user_counts, a.user_id, 0)
                      ub == IF known THEN st.user_is_bot
                            ELSE DictSet(st.user_is_bot, a.user_id, a.is_bot)
                  IN  [total_count |-> st.total_count + 1,
                       user_counts |-> DictSet(uc, a.user_id, DictGet(uc, a.user_id) + 1),
                       user_is_bot |-> ub]
             ELSE [st EXCEPT !.total_count = st.total_count + 1]
        ELSE st

RECURSIVE CountPage(_, _, _, _, _)
CountPage(st, messages, count_replies, count_messages, per_user) ==
    IF messages = <<>> THEN st
    ELSE CountPage(CountMessage(st, Head(messages), count_replies, count_messages, per_user),
                   Tail(messages), count_replies, count_messages, per_user)

-----------------------------------------------------------------------------
(* get_user_display *)

\* An API request as the provider sees it.  `arg` is the cursor of a paged
\* call or the id of an info call; oldest / latest are <<>> when the request
\* does not carry them; ok is whether the provider answered or raised
\* SlackApiError.
Request(api, arg, oldest, latest, ok) ==
    [api |-> api, arg |-> arg, oldest |-> oldest, latest |-> latest, ok |-> ok]

\* The answer of bots.info / users.info: ok = FALSE is a SlackApiError; name
\* is the bot name or the profile email, <<>> when the provider omits it.
InfoAnswers == {[ok |-> FALSE, name |-> None],
                [ok |-> TRUE, name |-> None],
                [ok |-> TRUE, name |-> <<"n">>],
                [ok |-> TRUE, name |-> <<"m">>]}

\* dict.get(key, default) of an answer field that may be missing
GetOr(field, default) == IF field = None THEN default ELSE field

\* a slip: the fallback of a failed lookup is the bare id
GetUserDisplayBareId(user_id, is_bot, cache, answer) ==
    IF DictHas(cache, user_id)
    THEN [display |-> DictGet(cache, user_id), cache |-> cache, requests |-> <<>>]
    ELSE LET api == IF is_bot THEN "bots_info" ELSE "users_info"
             display == IF answer.ok
                        THEN GetOr(answer.name, user_id) \o <<":">> \o user_id
                        ELSE user_id
         IN  [display |-> display,
              cache |-> DictSet(cache, user_id, display),
              requests |-> <<Request(api, user_id, None, None, answer.ok)>>]

\* a slip: the fallback of a failed lookup is returned but not cached
GetUserDisplayNoFallbackCache(user_id, is_bot, cache, answer) ==
    IF DictHas(cache, user_id)
    THEN [display |-> DictGet(cache, user_id), cache |-> cache, requests |-> <<>>]
    ELSE LET api == IF is_bot THEN "bots_info" ELSE "users_info"
             display == IF answer.ok
                        THEN GetOr(answer.name, user_id) \o <<":">> \o user_id
                        ELSE user_id \o <<":">> \o user_id
         IN  [display |-> display,
              cache |-> IF answer.ok THEN DictSet(cache, user_id, display) ELSE cache,
              requests |-> <<Request(api, user_id, None, None, answer.ok)>>]

\* get_user_display(client, user_id, is_bot, user_cache) when the provider
\* would answer `answer`: the display returned, the cache afterwards and the
\* requests issued
get_user_display(user_id, is_bot, cache, answer) ==
    IF DictHas(cache, user_id)
    THEN [display |-> DictGet(cache, user_id), cache |-> cache, requests |-> <<>>]
    ELSE LET api == IF is_bot THEN "bots_info" ELSE "users_info"
             display == IF answer.ok
                        THEN GetOr(answer.name, user_id) \o <<":">> \o user_id
                        ELSE user_id \o <<":">> \o user_id
         IN  [display |-> display,
              cache |-> DictSet(cache, user_id, display),
              requests |-> <<Request(api, user_id, None, None, answer.ok)>>]

-----------------------------------------------------------------------------
(* State *)

VARIABLES
    program,        \* "emoji" or "count": which of the two scripts runs
    args,           \* the parsed command line
    utcoffset,      \* the local time zone of the process
    listing,        \* the provider's pages of joined channels
    history,        \* the provider's pages of channel history
    directory,      \* the provider's answer to bots.info / users.info, per id
    pc,             \* where the run is
    channel_name,   \* get_channel_id's local after lstrip
    cursor,         \* the pagination cursor of the running loop
    channel_id,     \* what get_channel_id returned
    oldest, latest, \* the time bounds computed before the history loop
    emoji_counter,  \* get_emoji_reactions' Counter
    total_count, user_counts, user_is_bot, user_cache,  \* count_messages' locals
    results,        \* count_messages' result list
    stdout,         \* the report rows printed
    exit_status,    \* <<>> while running, then <<0>> or <<1>>
    requests,       \* every API request issued, in order
    returned        \* what each get_user_display call returned

vars == <<program, args, utcoffset, listing, history, directory, pc, channel_name, cursor,
          channel_id, oldest, latest, emoji_counter, total_count, user_counts,
          user_is_bot, user_cache, results, stdout, exit_status, requests, returned>>

inputs == <<program, args, utcoffset, listing, history, directory>>

\* The page a paged call with this cursor is answered with: the first page
\* for cursor=None, else the page the cursor token names.
PageAt(c) == IF c = None THEN 1 ELSE c[1]

\* main's date parsing
date_from == IF Truthy(args.date_from) THEN <<strptime(args.date_from[1])>> ELSE None

date_to == IF Truthy(args.date_to) THEN <<EndOfDay(strptime(args.date_to[1]))>> ELSE None

\* a slip: the cursor is not passed on
HistoryRequestNoCursor(ok) ==
    Request("conversations_history", None,
            IF TruthyNum(oldest) THEN oldest ELSE None,
            IF TruthyNum(latest) THEN latest ELSE None, ok)

\* params of conversations_history: oldest / latest are added `if oldest:`
HistoryRequest(ok) ==
    Request("conversations_history", cursor,
            IF TruthyNum(oldest) THEN oldest ELSE None,
            IF TruthyNum(latest) THEN latest ELSE None, ok)

\* a slip: the error is swallowed and the run goes on to the report
GoOnToReport == pc' = "report" /\ UNCHANGED exit_status

\* sys.exit(1)
Exit1 == pc' = "exit" /\ exit_status' = <<1>>

-----------------------------------------------------------------------------
(* main, up to the call of get_channel_id, and get_channel_id's prologue *)

Main ==
    /\ pc = "main"
    /\ channel_name' = lstrip(args.channel_name)
    /\ cursor' = None
    /\ pc' = "get_channel_id"
    /\ UNCHANGED <<inputs, channel_id, oldest, latest, emoji_counter, total_count,
                   user_counts, user_is_bot, user_cache, results, stdout,
                   exit_status, requests, returned>>

\* the index of the first channel of the page whose name is channel_name, or 0
FirstMatch(channels, name) ==
    IF \E i \in 1..Len(channels) : channels[i].name = name
    THEN CHOOSE i \in 1..Len(channels) :
            /\ channels[i].name = name
            /\ \A j \in 1..(i - 1) : channels[j].name # name
    ELSE 0

\* one iteration of get_channel_id's loop, the listing call answered
UsersConversationsOk ==
    /\ pc = "get_channel_id"
    /\ LET result == listing[PageAt(cursor)]
           m == FirstMatch(result.channels, channel_name)
       IN  /\ requests' = Append(requests, Request("users_conversations", cursor, None, None, TRUE))
           /\ IF m # 0
              THEN /\ channel_id' = result.channels[m].id
                   /\ pc' = "check_channel"
                   /\ UNCHANGED cursor
              ELSE IF ~result.has_more
              THEN /\ channel_id' = None
                   /\ pc' = "check_channel"
                   /\ UNCHANGED cursor
              ELSE /\ cursor' = result.next_cursor
                   /\ UNCHANGED <<channel_id, pc>>
    /\ UNCHANGED <<inputs, channel_name, oldest, latest, emoji_counter, total_count,
                   user_counts, user_is_bot, user_cache, results, stdout,
                   exit_status, returned>>

\* the listing call raised SlackApiError
UsersConversationsError ==
    /\ pc = "get_channel_id"
    /\ requests' = Append(requests, Request("users_conversations", cursor, None, None, FALSE))
    /\ channel_id' = None
    /\ pc' = "check_channel"
    /\ UNCHANGED <<inputs, channel_name, cursor, oldest, latest, emoji_counter,
                   total_count, user_counts, user_is_bot, user_cache, results,
                   stdout, exit_status, returned>>

\* main: `if not channel_id: sys.exit(1)`, else the prologue of
\* get_emoji_reactions / count_messages
CheckChannel ==
    /\ pc = "check_channel"
    /\ IF ~Truthy(channel_id)
       THEN /\ Exit1
            /\ UNCHANGED <<cursor, oldest, latest, emoji_counter, total_count,
                           user_counts, user_is_bot, user_cache>>
       ELSE /\ pc' = "history"
            /\ oldest' = IF Truthy(date_from) THEN <<Timestamp(date_from[1], utcoffset)>> ELSE None
            /\ latest' = IF Truthy(date_to) THEN <<Timestamp(date_to[1], utcoffset)>> ELSE None
            /\ cursor' = None
            /\ emoji_counter' = <<>>
            /\ total_count' = 0
            /\ user_counts' = <<>>
            /\ user_is_bot' = <<>>
            /\ user_cache' = <<>>
            /\ UNCHANGED exit_status
    /\ UNCHANGED <<inputs, channel_name, channel_id, results, stdout, requests, returned>>

-----------------------------------------------------------------------------
(* get_emoji_reactions: one iteration of the history loop *)

EmojiHistoryOk ==
    /\ pc = "history"
    /\ program = "emoji"
    /\ LET request == HistoryRequest(TRUE)
           result == history[PageAt(request.arg)]
       IN  /\ requests' = Append(requests, request)
           /\ emoji_counter' = EmojiPage(emoji_counter, result.messages)
           /\ IF ~result.has_more
              THEN pc' = "report" /\ UNCHANGED cursor
              ELSE cursor' = result.next_cursor /\ UNCHANGED pc
    /\ UNCHANGED <<inputs, channel_name, channel_id, oldest, latest, total_count,
                   user_counts, user_is_bot, user_cache, results, stdout,
                   exit_status, returned>>

\* conversations_history raised SlackApiError: get_emoji_reactions returns
\* None and main exits with status 1
EmojiHistoryError ==
    /\ pc = "history"
    /\ program = "emoji"
    /\ requests' = Append(requests, HistoryRequest(FALSE))
    /\ Exit1
    /\ UNCHANGED <<inputs, channel_name, cursor, channel_id, oldest, latest,
                   emoji_counter, total_count, user_counts, user_is_bot,
                   user_cache, results, stdout, returned>>

-----------------------------------------------------------------------------
(* count_messages: one iteration of the history loop *)

CountHistoryOk ==
    /\ pc = "history"
    /\ program = "count"
    /\ LET request == HistoryRequest(TRUE)
           result == history[PageAt(request.arg)]
           st == CountPage([total_count |-> total_count, user_counts |-> user_counts,
                            user_is_bot |-> user_is_bot],
                           result.messages, args.replies, args.messages, args.user)
       IN  /\ requests' = Append(requests, request)
           /\ total_count' = st.total_count
           /\ user_counts' = st.user_counts
           /\ user_is_bot' = st.user_is_bot
           /\ IF result.has_more
              THEN /\ cursor' = result.next_cursor
                   /\ UNCHANGED <<pc, results>>
              ELSE /\ UNCHANGED cursor
                   /\ IF args.user
                      THEN /\ results' = <<>>
                           /\ pc' = IF st.user_counts = <<>> THEN "report" ELSE "format"
                      ELSE /\ results' = << <<st.total_count, args.channel_name>> >>
                           /\ pc' = "report"
    /\ UNCHANGED <<inputs, channel_name, channel_id, oldest, latest, emoji_counter,
                   user_cache, stdout, exit_status, returned>>

CountHistoryError ==
    /\ pc = "history"
    /\ program = "count"
    /\ requests' = Append(requests, HistoryRequest(FALSE))
    /\ Exit1
    /\ UNCHANGED <<inputs, channel_name, cursor, channel_id, oldest, latest,
                   emoji_counter, total_count, user_counts, user_is_bot,
                   user_cache, results, stdout, returned>>

\* one iteration of `for user_id, count in user_counts.items()`; the lookup,
\* if one is issued, is answered as the provider's directory has it
FormatRow ==
    /\ pc = "format"
    /\ LET i == Len(results) + 1
           user_id == user_counts[i][1]
           count == user_counts[i][2]
           r == get_user_display(user_id, DictGet(user_is_bot, user_id), user_cache,
                                 directory[user_id])
       IN  /\ user_cache' = r.cache
           /\ requests' = requests \o r.requests
           /\ returned' = Append(returned, [user_id |-> user_id, display |-> r.display,
                                            called |-> r.requests # <<>>])
           /\ results' = Append(results, <<count, args.channel_name \o <<":">> \o r.display>>)
           /\ pc' = IF i = Len(user_counts) THEN "report" ELSE "format"
    /\ UNCHANGED <<inputs, channel_name, cursor, channel_id, oldest, latest,
                   emoji_counter, total_count, user_counts, user_is_bot, stdout,
                   exit_status>>

-----------------------------------------------------------------------------
(* main: sort, --top, print *)

\* print(f"{count} {label}") / print(f"{count} :{emoji}:")
Line(count, text) == [count |-> count, text |-> text]

\* the rows printed for a list of results
Report(rows, countAt, top) ==
    LET sorted_results == ApplyTop(sorted(rows, countAt), top)
    IN  [i \in 1..Len(sorted_results) |->
            IF countAt = 1
            THEN Line(sorted_results[i][1], <<" ">> \o sorted_results[i][2])
            ELSE Line(sorted_results[i][2], <<" ", ":">> \o sorted_results[i][1] \o <<":">>)]

PrintReport ==
    /\ pc = "report"
    /\ stdout' = IF program = "emoji" THEN Report(emoji_counter, 2, args.top)
                 ELSE Report(results, 1, args.top)
    /\ pc' = "exit"
    /\ exit_status' = <<0>>
    /\ UNCHANGED <<inputs, channel_name, cursor, channel_id, oldest, latest,
                   emoji_counter, total_count, user_counts, user_is_bot,
                   user_cache, results, requests, returned>>

Next ==
    \/ Main
    \/ UsersConversationsOk
    \/ UsersConversationsError
    \/ CheckChannel
    \/ EmojiHistoryOk
    \/ EmojiHistoryError
    \/ CountHistoryOk
    \/ CountHistoryError
    \/ FormatRow
    \/ PrintReport

-----------------------------------------------------------------------------
(* Inputs: command lines, provider data *)

SeqsUpTo(S, n) == UNION {[1..k -> S] : k \in 0..n}

RECURSIVE SumSeq(_)
SumSeq(s) == IF s = <<>> THEN 0 ELSE Head(s) + SumSeq(Tail(s))

\* the ways of cutting n items into at most MaxPages pages (a page may be empty)
PageSizes(n) == {sz \in UNION {[1..k -> 0..n] : k \in 1..MaxPages} : SumSeq(sz) = n}

\* A finite chain of pages holding `items` in order, page i of size sizes[i].
\* Page i names page i+1 as its next_cursor; has_more is true before page
\* `stop` and false from it on (the last page always reports false).
MkPages(field, items, sizes, stop) ==
    [i \in 1..Len(sizes) |->
        LET off == SumSeq(SubSeq(sizes, 1, i - 1))
        IN  [kind |-> field,
             items |-> SubSeq(items, off + 1, off + sizes[i]),
             has_more |-> i < stop,
             next_cursor |-> IF i < Len(sizes) THEN <<i + 1>> ELSE None]]

\* the response of users.conversations / conversations.history for a page
ChannelPages(items, sizes, stop) ==
    LET p == MkPages("channels", items, sizes, stop)
    IN  [i \in 1..Len(p) |-> [channels |-> p[i].items, has_more |-> p[i].has_more,
                              next_cursor |-> p[i].next_cursor]]

\* a message of kind k; its ts is its position in the history, and a thread
\* reply points at ts 0, which is no message of the window
Message(k, ts) ==
    [user |-> k.user, bot_id |-> k.bot_id, app_id |-> k.app_id, ts |-> ts,
     has_thread_ts |-> k.thread # "none",
     thread_ts |-> IF k.thread = "self" THEN ts ELSE 0,
     has_reactions |-> k.reactions # None,
     reactions |-> IF k.reactions = None THEN <<>> ELSE k.reactions[1]]

HistoryPages(kinds, sizes, stop) ==
    LET msgs == [i \in 1..Len(kinds) |-> Message(kinds[i], i)]
        p == MkPages("messages", msgs, sizes, stop)
    IN  [i \in 1..Len(p) |-> [messages |-> p[i].items, has_more |-> p[i].has_more,
                              next_cursor |-> p[i].next_cursor]]

Kind(user, bot_id, app_id, thread, reactions) ==
    [user |-> user, bot_id |-> bot_id, app_id |-> app_id, thread |-> thread,
     reactions |-> reactions]

Reaction(name, count) == [name |-> name, count |-> count]

DefaultArgs ==
    [channel_name |-> <<"#", "g">>, replies |-> FALSE, messages |-> FALSE,
     user |-> FALSE, date_from |-> None, date_to |-> None, top |-> None]

DefaultListing ==
    ChannelPages(<<[id |-> <<"C1">>, name |-> <<"g">>]>>, <<1>>, 1)

DefaultHistory ==
    HistoryPages(<<Kind(<<"U1">>, None, None, "none", <<<<Reaction(<<"a">>, 1)>>>>),
                   Kind(None, <<"B1">>, None, "other",
                        <<<<Reaction(<<"a">>, 1), Reaction(<<"b">>, 2)>>>>)>>,
                 <<1, 1>>, 2)

\* the ids a message of the model can be attributed to
ActorIds == {<<"U1">>, <<"U2">>, <<"B1">>, <<"A1">>, <<"unknown">>}

\* a provider that knows U1, U2 and A1, omits the name of B1 and fails on
\* the id 'unknown'
DefaultDirectory ==
    [id \in ActorIds |->
        IF id = <<"unknown">> THEN [ok |-> FALSE, name |-> None]
        ELSE IF id = <<"B1">> THEN [ok |-> TRUE, name |-> None]
        ELSE IF id = <<"A1">> THEN [ok |-> TRUE, name |-> <<"m">>]
        ELSE [ok |-> TRUE, name |-> <<"n">>]]

InputWith(p, a, tz, l, h, dir) ==
    [program |-> p, args |-> a, utcoffset |-> tz, listing |-> l, history |-> h,
     directory |-> dir]

Input(p, a, tz, l, h) == InputWith(p, a, tz, l, h, DefaultDirectory)

\* runs of both programs on the default data, with and without --user
BaseInputs ==
    {Input(p, [DefaultArgs EXCEPT !.user = u], 0, DefaultListing, DefaultHistory) :
        p \in {"emoji", "count"}, u \in BOOLEAN}

\* the state before the first step, the run standing at `start`
InitAt(inp, start) ==
    /\ program = inp.program
    /\ args = inp.args
    /\ utcoffset = inp.utcoffset
    /\ listing = inp.listing
    /\ history = inp.history
    /\ directory = inp.directory
    /\ pc = start
    /\ channel_name = None
    /\ cursor = None
    /\ channel_id = None
    /\ oldest = None
    /\ latest = None
    /\ emoji_counter = <<>>
    /\ total_count = 0
    /\ user_counts = <<>>
    /\ user_is_bot = <<>>
    /\ user_cache = <<>>
    /\ results = <<>>
    /\ stdout = <<>>
    /\ exit_status = <<>>
    /\ requests = <<>>
    /\ returned = <<>>

\* the state of a process that has parsed its command line
InitFrom(inp) == InitAt(inp, "main")

Init == \E inp \in BaseInputs : InitFrom(inp)

Spec == Init /\ [][Next]_vars

-----------------------------------------------------------------------------
(* Channel resolution *)

\* channel names given on the command line
Names == {<<"g">>, <<"#", "g">>, <<"#", "#", "g">>, <<"g", "g">>, <<"#", "g", "g">>,
          <<"G">>, <<"g", "#">>, <<"#">>}

\* channels the caller may have joined: a name borne by two channels, a name
\* that extends it, and one that differs from it in case only
Channels == {[id |-> <<"C1">>, name |-> <<"g">>], [id |-> <<"C2">>, name |-> <<"g">>],
             [id |-> <<"C3">>, name |-> <<"g", "g">>], [id |-> <<"C4">>, name |-> <<"G">>]}

\* any channel name of Names, against every listing of up to MaxChannels
\* channels cut into at most MaxPages pages, has_more turning false at any
\* page `stop`
InitResolve ==
    \/ \E inp \in BaseInputs : InitFrom(inp)
    \/ \E n \in Names, cs \in SeqsUpTo(Channels, MaxChannels) :
          \E sz \in PageSizes(Len(cs)) : \E stop \in 1..Len(sz) :
             InitFrom(Input("count", [DefaultArgs EXCEPT !.channel_name = n], 0,
                            ChannelPages(cs, sz, stop), DefaultHistory))

SpecResolve == InitResolve /\ [][Next]_vars

\* the requests of one API, in order
RequestsOf(api) == SelectSeq(requests, LAMBDA r : r.api = api)

\* s without its longest prefix of '#'
Unhashed(s) ==
    LET k == CHOOSE k \in 0..Len(s) :
                /\ \A i \in 1..k : s[i] = "#"
                /\ k < Len(s) => s[k + 1] # "#"
    IN  SubSeq(s, k + 1, Len(s))

\* get_channel_id has returned
Resolved == pc \notin {"main", "get_channel_id"}

(* C5: get_channel_id compares the name without its leading '#' (so that
   '#'+n and n, which have the same such name, resolve alike).  Once it has
   returned: every listing call but the last was answered with a page that
   holds no channel of that name and reports has_more; if the last call
   failed the result is None; else if its page holds a channel of that name
   the result is the id of the first such channel of the page; else the page
   reports no more pages and the result is None.  When the result is None no
   history call is ever made and the process can only exit with status 1. *)
C5_GetChannelId ==
    Resolved =>
        LET name == Unhashed(args.channel_name)
            lreq == RequestsOf("users_conversations")
            n == Len(lreq)
            Holds(i) == \E j \in 1..Len(listing[i].channels) :
                            listing[i].channels[j].name = name
            First(i) == CHOOSE j \in 1..Len(listing[i].channels) :
                            /\ listing[i].channels[j].name = name
                            /\ \A h \in 1..(j - 1) : listing[i].channels[h].name # name
        IN  /\ n >= 1
            /\ Unhashed(<<"#">> \o args.channel_name) = name
            /\ \A i \in 1..n : lreq[i].arg = IF i = 1 THEN None ELSE listing[i - 1].next_cursor
            /\ \A i \in 1..(n - 1) : lreq[i].ok /\ ~Holds(i) /\ listing[i].has_more
            /\ IF ~lreq[n].ok THEN channel_id = None
               ELSE IF Holds(n) THEN channel_id = listing[n].channels[First(n)].id
               ELSE ~listing[n].has_more /\ channel_id = None
            /\ channel_id = None =>
                /\ RequestsOf("conversations_history") = <<>>
                /\ pc \in {"check_channel", "exit"}
                /\ stdout = <<>>
                /\ pc = "exit" => exit_status = <<1>>

\* '##g' was resolved on the second page of the listing, to the first channel
\* of a page whose second channel also bears the name 'g'
C5_Witness ==
    /\ pc = "history"
    /\ args.channel_name = <<"#", "#", "g">>
    /\ Len(RequestsOf("users_conversations")) = 2
    /\ channel_id = <<"C2">>
    /\ Len(listing[2].channels) = 2
    /\ listing[2].channels[2].name = <<"g">>

-----------------------------------------------------------------------------
(* Emoji totals *)

EmojiNames == {<<"a">>, <<"b">>}

\* what a message may carry as reactions: no field, an empty list, one
\* reaction, two reactions in either order of names
ReactionKinds ==
    {None, <<<<>>>>,
     <<<<Reaction(<<"a">>, 1)>>>>,
     <<<<Reaction(<<"b">>, MaxReactionCount)>>>>,
     <<<<Reaction(<<"a">>, MaxReactionCount), Reaction(<<"b">>, 1)>>>>,
     <<<<Reaction(<<"b">>, 1), Reaction(<<"a">>, 1)>>>>}

EmojiKinds == {Kind(<<"U1">>, None, None, "none", r) : r \in ReactionKinds}

\* every history of up to MaxMsgs messages, in every order, cut into pages
\* in every way, all of them served
InitEmoji ==
    \/ \E inp \in BaseInputs : InitFrom(inp)
    \/ \E ks \in SeqsUpTo(EmojiKinds, MaxMsgs) : \E sz \in PageSizes(Len(ks)) :
          InitFrom(Input("emoji", DefaultArgs, 0, DefaultListing,
                         HistoryPages(ks, sz, Len(sz))))

SpecEmoji == InitEmoji /\ [][Next]_vars

\* the places <<page, message, reaction>> of the first n pages where a
\* reaction named e stands
ReactionPlaces(e, n) ==
    {pl \in UNION {UNION {{<<p, m, r>> : r \in 1..Len(history[p].messages[m].reactions)} :
                            m \in 1..Len(history[p].messages)} : p \in 1..n} :
        /\ history[pl[1]].messages[pl[2]].has_reactions
        /\ history[pl[1]].messages[pl[2]].reactions[pl[3]].name = e}

\* the sum of reaction.count over a set of places, taken in no order
RECURSIVE SumCounts(_)
SumCounts(places) ==
    IF places = {} THEN 0
    ELSE LET pl == CHOOSE x \in places : TRUE
         IN  history[pl[1]].messages[pl[2]].reactions[pl[3]].count + SumCounts(places \ {pl})

\* the history calls answered so far
PagesFetched == Len(SelectSeq(requests, LAMBDA r : r.api = "conversations_history" /\ r.ok))

\* the first page of the history that reports has_more false
LastPage == CHOOSE k \in 1..Len(history) :
                ~history[k].has_more /\ \A j \in 1..(k - 1) : history[j].has_more

\* the history loop has ended without an API error
Aggregated == pc = "report" \/ (pc = "exit" /\ exit_status = <<0>>)

(* C1: in the emoji program, after any number of history pages fetched
   successfully, the Counter's total for every emoji name is the sum of
   reaction.count over every reaction of that name on every message of those
   pages (a sum over a set of places: it knows no order and no page
   boundary), the Counter has a key exactly for the names that occur, and
   when get_emoji_reactions returns the pages fetched are all the pages. *)
C1_EmojiTotals ==
    program = "emoji" /\ pc \in {"history", "report", "exit"} =>
        /\ \A e \in EmojiNames :
              /\ CounterGet(emoji_counter, e) = SumCounts(ReactionPlaces(e, PagesFetched))
              /\ DictHas(emoji_counter, e) <=> ReactionPlaces(e, PagesFetched) # {}
        /\ DictKeys(emoji_counter) \subseteq EmojiNames
        /\ Aggregated => PagesFetched = LastPage /\ LastPage = Len(history)

\* a finished run over two pages: 'a' was counted on both pages to a total
\* above any single count, and a message without a reactions field was read
C1_Witness ==
    /\ program = "emoji"
    /\ Aggregated
    /\ Len(history) = 2
    /\ ReactionPlaces(<<"a">>, 1) # {}
    /\ ReactionPlaces(<<"a">>, 2) # ReactionPlaces(<<"a">>, 1)
    /\ CounterGet(emoji_counter, <<"a">>) = MaxReactionCount + 1
    /\ CounterGet(emoji_counter, <<"b">>) = 1
    /\ \E p \in 1..2 : \E m \in 1..Len(history[p].messages) :
          ~history[p].messages[m].has_reactions

-----------------------------------------------------------------------------
(* The root / reply filter *)

\* a message outside any thread, the root of a thread, a reply in a thread
ThreadKinds == {Kind(<<"U1">>, None, None, t, None) : t \in {"none", "self", "other"}}

\* every history of up to MaxMsgs messages of these kinds under every
\* combination of --replies, --messages and --user
InitFilter ==
    \/ \E inp \in BaseInputs : InitFrom(inp)
    \/ \E ks \in SeqsUpTo(ThreadKinds, MaxMsgs), r \in BOOLEAN, m \in BOOLEAN, u \in BOOLEAN :
          \E sz \in PageSizes(Len(ks)) :
             InitFrom(Input("count",
                            [DefaultArgs EXCEPT !.replies = r, !.messages = m, !.user = u],
                            0, DefaultListing, HistoryPages(ks, sz, Len(sz))))

SpecFilter == InitFilter /\ [][Next]_vars

\* the places <<page, message>> of the first n pages
MessagePlaces(n) ==
    UNION {{<<p, m>> : m \in 1..Len(history[p].messages)} : p \in 1..n}

MessageAt(pl) == history[pl[1]].messages[pl[2]]

\* the glossary's reply: attached to a thread whose timestamp is not its own
Replies(n) == {pl \in MessagePlaces(n) :
                  MessageAt(pl).has_thread_ts /\ MessageAt(pl).thread_ts # MessageAt(pl).ts}

Roots(n) == MessagePlaces(n) \ Replies(n)

\* the messages the filter policy keeps
Kept(n) ==
    IF args.replies /\ ~args.messages THEN Replies(n)
    ELSE IF args.messages /\ ~args.replies THEN Roots(n)
    ELSE MessagePlaces(n)

\* all messages of the history, page after page
RECURSIVE Flatten(_)
Flatten(pages) ==
    IF pages = <<>> THEN <<>> ELSE Head(pages).messages \o Flatten(Tail(pages))

\* what count_messages counts over the whole history under the given flags
TotalUnder(count_replies, count_messages) ==
    CountPage([total_count |-> 0, user_counts |-> <<>>, user_is_bot |-> <<>>],
              Flatten(history), count_replies, count_messages, FALSE).total_count

(* C2: in the count program, after any number of history pages, total_count
   is the number of replies on those pages under --replies alone, the number
   of roots under --messages alone, and the number of all messages under
   both flags or none, a reply being a message that carries thread_ts with a
   value other than its ts; and over the messages of the run's history the
   count under --replies alone plus the count under --messages alone, the
   count under both flags and the count under no flag all equal the number
   of messages. *)
C2_FilterPolicy ==
    program = "count" /\ pc \in {"history", "format", "report", "exit"} =>
        /\ total_count = Cardinality(Kept(PagesFetched))
        /\ \A pl \in MessagePlaces(Len(history)) :
              IsReply(MessageAt(pl)) <=> pl \in Replies(Len(history))
        /\ TotalUnder(TRUE, FALSE) + TotalUnder(FALSE, TRUE) = Len(Flatten(history))
        /\ TotalUnder(TRUE, TRUE) = Len(Flatten(history))
        /\ TotalUnder(FALSE, FALSE) = Len(Flatten(history))
        /\ Aggregated /\ ~args.user =>
              results = << <<Cardinality(Kept(LastPage)), args.channel_name>> >>

\* a finished run with --replies alone over a history that holds a reply, a
\* thread root and a message outside any thread: one row, counting the reply
C2_Witness ==
    /\ program = "count"
    /\ pc = "exit"
    /\ args.replies /\ ~args.messages /\ ~args.user
    /\ Cardinality(Replies(Len(history))) = 1
    /\ \E pl \in Roots(Len(history)) : MessageAt(pl).has_thread_ts
    /\ \E pl \in Roots(Len(history)) : ~MessageAt(pl).has_thread_ts
    /\ Len(stdout) = 1
    /\ stdout[1].count = 1

-----------------------------------------------------------------------------
(* Per-actor counts *)

\* who a message may be from: a user, another user, a bot, an app, a bot
\* that is also an app, nobody, a user posting through a bot; and a reply
ActorKinds ==
    {Kind(<<"U1">>, None, None, "none", None),
     Kind(<<"U2">>, None, None, "none", None),
     Kind(None, <<"B1">>, None, "none", None),
     Kind(None, None, <<"A1">>, "none", None),
     Kind(None, <<"B1">>, <<"A1">>, "none", None),
     Kind(None, None, None, "none", None),
     Kind(<<"U1">>, <<"B1">>, None, "none", None),
     Kind(<<"U2">>, None, None, "other", None)}

\* n messages on one page, or the first alone on a page and the rest on a second
OneOrTwoPages(n) == {<<n>>} \cup {<<1, n - 1>> : k \in IF n >= 1 THEN {1} ELSE {}}

\* every history of up to MaxMsgs such messages, with and without --user,
\* with and without --messages (which drops the replies)
InitActor ==
    \/ \E inp \in BaseInputs : InitFrom(inp)
    \/ \E ks \in SeqsUpTo(ActorKinds, MaxMsgs), m \in BOOLEAN, u \in BOOLEAN :
          \E sz \in OneOrTwoPages(Len(ks)) :
             InitFrom(Input("count", [DefaultArgs EXCEPT !.messages = m, !.user = u],
                            0, DefaultListing, HistoryPages(ks, sz, Len(sz))))

SpecActor == InitActor /\ [][Next]_vars

\* the ActorKey of the data model
KeyOf(message) ==
    IF message.user # None THEN message.user
    ELSE IF message.bot_id # None THEN message.bot_id
    ELSE IF message.app_id # None THEN message.app_id
    ELSE <<"unknown">>

\* the kept messages of the first n pages attributed to key k
KeptOf(k, n) == {pl \in Kept(n) : KeyOf(MessageAt(pl)) = k}

\* place a is read before place b
Before(a, b) == a[1] < b[1] \/ (a[1] = b[1] /\ a[2] < b[2])

FirstPlace(k, n) ==
    CHOOSE pl \in KeptOf(k, n) : \A o \in KeptOf(k, n) : o = pl \/ Before(pl, o)

(* C6: in the count program with --user, after any number of history pages:
   the code attributes every message to its ActorKey (user if present, else
   bot_id, else app_id, else 'unknown'); user_counts has exactly one entry
   per ActorKey of the kept messages, in the order the keys were first met;
   each entry counts the kept messages of its key; the entries sum to
   total_count, the number of kept messages.  Each row built has the count
   of its entry and a label made of the channel name and a display ending in
   the key; when the loop has ended there is one row per entry.  Without
   --user the result is the single row of the number of kept messages. *)
C6_PerActor ==
    program = "count" /\ pc \in {"history", "format", "report", "exit"} =>
        LET n == PagesFetched
            keys == {KeyOf(MessageAt(pl)) : pl \in Kept(n)}
        IN  /\ \A pl \in MessagePlaces(Len(history)) :
                  ActorOf(MessageAt(pl)).user_id = KeyOf(MessageAt(pl))
            /\ total_count = Cardinality(Kept(n))
            /\ args.user =>
                /\ DictKeys(user_counts) = keys
                /\ Len(user_counts) = Cardinality(keys)
                /\ \A i, j \in 1..Len(user_counts) :
                      i < j => Before(FirstPlace(user_counts[i][1], n),
                                      FirstPlace(user_counts[j][1], n))
                /\ \A i \in 1..Len(user_counts) :
                      user_counts[i][2] = Cardinality(KeptOf(user_counts[i][1], n))
                /\ SumSeq([i \in 1..Len(user_counts) |-> user_counts[i][2]]) = total_count
                /\ Len(results) <= Len(user_counts)
                /\ \A i \in 1..Len(results) :
                      LET key == user_counts[i][1]
                          label == results[i][2]
                          head == args.channel_name \o <<":">>
                          tail == <<":">> \o key
                      IN  /\ results[i][1] = user_counts[i][2]
                          /\ Len(label) >= Len(head) + 1 + Len(tail)
                          /\ SubSeq(label, 1, Len(head)) = head
                          /\ SubSeq(label, Len(label) - Len(tail) + 1, Len(label)) = tail
                /\ pc \in {"report", "exit"} /\ Aggregated =>
                      /\ Len(results) = Len(user_counts)
                      /\ SumSeq([i \in 1..Len(results) |-> results[i][1]])
                            = Cardinality(Kept(LastPage))
            /\ ~args.user /\ Aggregated =>
                  results = << <<Cardinality(Kept(LastPage)), args.channel_name>> >>

\* a finished --user --messages run: a bot that is also an app was met
\* first, then a user, each once, and a reply was left out
C6_Witness ==
    /\ program = "count"
    /\ pc = "exit"
    /\ args.user /\ args.messages
    /\ user_counts = << <<<<"B1">>, 1>>, <<<<"U1">>, 1>> >>
    /\ \E pl \in MessagePlaces(Len(history)) :
          MessageAt(pl).bot_id = <<"B1">> /\ MessageAt(pl).app_id = <<"A1">>
    /\ Replies(Len(history)) # {}
    /\ Len(stdout) = 2

-----------------------------------------------------------------------------
(* Failed lookups *)

LookupKinds ==
    {Kind(<<"U1">>, None, None, "none", None),
     Kind(None, <<"B1">>, None, "none", None),
     Kind(None, None, None, "none", None)}

\* every provider directory over the ids of these messages
Directories ==
    {[id \in ActorIds |-> IF id \in DOMAIN d THEN d[id] ELSE DefaultDirectory[id]] :
        d \in [{<<"U1">>, <<"B1">>, <<"unknown">>} -> InfoAnswers]}

InitLookup ==
    \/ \E inp \in BaseInputs : InitFrom(inp)
    \/ \E ks \in SeqsUpTo(LookupKinds, MaxMsgs), dir \in Directories :
          InitFrom(InputWith("count", [DefaultArgs EXCEPT !.user = TRUE], 0,
                             DefaultListing, HistoryPages(ks, <<Len(ks)>>, 1), dir))

SpecLookup == InitLookup /\ [][Next]_vars

InfoRequests == SelectSeq(requests, LAMBDA r : r.api \in {"bots_info", "users_info"})

(* C7: in the count program with --user, the i-th get_user_display call is
   for the i-th key of user_counts and issues a lookup; when the provider
   fails that lookup the display returned is "key:key" and the row is
   "channel:key:key" with the key's count.  Once a lookup has failed the
   process never exits with status 1: it stays in the format loop while
   keys are left, and when it exits it has status 0, one row per key and
   one lookup per key, and has printed them all. *)
C7_LookupFailure ==
    program = "count" /\ args.user =>
        /\ Len(returned) = Len(results)
        /\ \A i \in 1..Len(returned) :
              LET k == returned[i].user_id
              IN  /\ k = user_counts[i][1]
                  /\ returned[i].called
                  /\ InfoRequests[i].arg = k
                  /\ InfoRequests[i].ok = directory[k].ok
                  /\ ~directory[k].ok =>
                        /\ returned[i].display = k \o <<":">> \o k
                        /\ results[i] = <<user_counts[i][2],
                                          args.channel_name \o <<":">> \o k \o <<":">> \o k>>
        /\ (\E i \in 1..Len(InfoRequests) : ~InfoRequests[i].ok) =>
              /\ pc \in {"format", "report", "exit"}
              /\ exit_status # <<1>>
              /\ pc = "format" <=> Len(results) < Len(user_counts)
              /\ pc = "exit" =>
                    /\ exit_status = <<0>>
                    /\ Len(InfoRequests) = Len(user_counts)
                    /\ Len(stdout) = Len(user_counts)
                    /\ \A i \in 1..Len(results) : \E j \in 1..Len(stdout) :
                          stdout[j] = Line(results[i][1], <<" ">> \o results[i][2])

\* a finished run of three actors: the lookup of the second failed, the
\* third was still looked up and answered, and three rows were printed
C7_Witness ==
    /\ program = "count"
    /\ args.user
    /\ pc = "exit"
    /\ Len(InfoRequests) = 3
    /\ InfoRequests[1].ok /\ ~InfoRequests[2].ok /\ InfoRequests[3].ok
    /\ InfoRequests[2].api = "users_info"
    /\ Len(stdout) = 3

-----------------------------------------------------------------------------
(* get_user_display as a unit: any sequence of calls over one cache *)

\* one call of get_user_display, by any caller, for any id; the provider
\* answers the lookup, if one is issued, in any way
CallGetUserDisplay(answers) ==
    /\ pc = "unit"
    /\ Len(returned) < MaxLookups
    /\ \E user_id \in {<<"U1">>, <<"B1">>}, is_bot \in BOOLEAN, answer \in answers :
          LET r == get_user_display(user_id, is_bot, user_cache, answer)
          IN  /\ user_cache' = r.cache
              /\ requests' = requests \o r.requests
              /\ returned' = Append(returned, [user_id |-> user_id, display |-> r.display,
                                               called |-> r.requests # <<>>])
    /\ UNCHANGED <<inputs, pc, channel_name, cursor, channel_id, oldest, latest,
                   emoji_counter, total_count, user_counts, user_is_bot, results,
                   stdout, exit_status>>

\* the provider would answer the lookup
LookupAnswered ==
    /\ pc = "unit"
    /\ CallGetUserDisplay({a \in InfoAnswers : a.ok})

\* the provider would fail the lookup with SlackApiError
LookupFailed ==
    /\ pc = "unit"
    /\ CallGetUserDisplay({a \in InfoAnswers : ~a.ok})

NextCache == LookupAnswered \/ LookupFailed

InitCache ==
    InitAt(Input("count", [DefaultArgs EXCEPT !.user = TRUE], 0, DefaultListing,
                 DefaultHistory), "unit")

SpecCache == InitCache /\ [][NextCache]_vars

(* C8: over one cache, a get_user_display call for a key that an earlier
   call has returned for returns the same label and issues no lookup,
   whether that earlier lookup was answered or failed; a call issues a
   lookup exactly when it is the first for its key; so each key is looked up
   at most once and a failed lookup is never retried. *)
C8_Memoized ==
    /\ \A i, j \in 1..Len(returned) :
          i < j /\ returned[i].user_id = returned[j].user_id =>
              /\ returned[j].display = returned[i].display
              /\ ~returned[j].called
    /\ \A j \in 1..Len(returned) :
          returned[j].called <=>
              \A i \in 1..(j - 1) : returned[i].user_id # returned[j].user_id
    /\ \A i, j \in 1..Len(InfoRequests) :
          InfoRequests[i].arg = InfoRequests[j].arg => i = j
    /\ Len(InfoRequests) = Cardinality({returned[i].user_id : i \in 1..Len(returned)})
    /\ \A i \in 1..Len(returned) :
          /\ DictHas(user_cache, returned[i].user_id)
          /\ DictGet(user_cache, returned[i].user_id) = returned[i].display

\* the lookup of a key failed, another key was looked up, and a later call
\* for the first key returned the fallback without a lookup
C8_Witness ==
    /\ pc = "unit"
    /\ Len(returned) = 3
    /\ returned[1].user_id = returned[3].user_id
    /\ returned[1].user_id # returned[2].user_id
    /\ Len(InfoRequests) = 2
    /\ ~InfoRequests[1].ok
    /\ ~returned[3].called
    /\ returned[3].display = returned[1].user_id \o <<":">> \o returned[1].user_id

-----------------------------------------------------------------------------
(* The history loop *)

PageKinds ==
    {Kind(<<"U1">>, None, None, "none", <<<<Reaction(<<"a">>, 1)>>>>),
     Kind(None, <<"B1">>, None, "other", <<<<Reaction(<<"b">>, MaxReactionCount)>>>>)}

\* both programs over every chain of at most MaxPages pages holding up to
\* MaxMsgs messages, has_more turning false at any page `stop`
InitPages ==
    \/ \E inp \in BaseInputs : InitFrom(inp)
    \/ \E ks \in SeqsUpTo(PageKinds, MaxMsgs), p \in {"emoji", "count"}, u \in BOOLEAN :
          \E sz \in PageSizes(Len(ks)) : \E stop \in 1..Len(sz) :
             InitFrom(Input(p, [DefaultArgs EXCEPT !.user = u], 0, DefaultListing,
                            HistoryPages(ks, sz, stop)))

SpecPages == InitPages /\ [][Next]_vars

\* the history loop has been left by its break
LoopEnded == pc \in {"format", "report"} \/ (pc = "exit" /\ exit_status = <<0>>)

(* C9: the i-th history call carries no cursor for i = 1 and the
   next_cursor of page i-1 otherwise, and is answered with page i; every
   call but the last was answered with a page reporting has_more; no call
   is made past the first page reporting has_more false, the loop is left
   by its break exactly when that page has been answered, and while the
   loop runs pages are left to fetch.  The messages of the pages answered
   are each processed once: total_count is the number of kept messages on
   them, the per-actor counts sum to it, and the emoji totals are the sums
   over them. *)
C9_Pagination ==
    LET hreq == RequestsOf("conversations_history")
        n == Len(hreq)
    IN  /\ \A i \in 1..n :
              /\ hreq[i].arg = IF i = 1 THEN None ELSE history[i - 1].next_cursor
              /\ PageAt(hreq[i].arg) = i
        /\ \A i \in 1..(n - 1) : hreq[i].ok /\ history[i].has_more
        /\ n <= LastPage
        /\ pc = "history" =>
              /\ n < LastPage
              /\ n >= 1 => hreq[n].ok
              /\ cursor = IF n = 0 THEN None ELSE history[n].next_cursor
        /\ LoopEnded => n = LastPage /\ hreq[n].ok
        /\ n = LastPage /\ hreq[n].ok => LoopEnded
        /\ program = "count" /\ pc \in {"history", "format", "report", "exit"} =>
              /\ total_count = Cardinality(Kept(PagesFetched))
              /\ args.user =>
                    SumSeq([i \in 1..Len(user_counts) |-> user_counts[i][2]])
                        = Cardinality(Kept(PagesFetched))
        /\ program = "emoji" /\ pc \in {"history", "report", "exit"} =>
              \A e \in EmojiNames :
                  CounterGet(emoji_counter, e) = SumCounts(ReactionPlaces(e, PagesFetched))

\* the count program left the loop after two calls, the second page being
\* the first to report has_more false, with messages on both pages
C9_Witness ==
    /\ program = "count"
    /\ LoopEnded
    /\ Len(RequestsOf("conversations_history")) = 2
    /\ RequestsOf("conversations_history")[2].arg = <<2>>
    /\ history[1].messages # <<>>
    /\ Len(history[2].messages) = 2
    /\ total_count = 3

(* C3: once a history call has failed, in either program, nothing has been
   printed, and the process has exited with status 1 (and so prints nothing
   later).  Whenever rows have been printed, or the process has exited with
   status 0, the channel was resolved and every history call up to the last
   page was answered. *)
C3_FailFast ==
    LET hreq == RequestsOf("conversations_history")
    IN  /\ (\E i \in 1..Len(hreq) : ~hreq[i].ok) =>
              /\ stdout = <<>>
              /\ pc = "exit"
              /\ exit_status = <<1>>
        /\ stdout # <<>> \/ exit_status = <<0>> =>
              /\ channel_id # None
              /\ Len(hreq) = LastPage
              /\ \A i \in 1..Len(hreq) : hreq[i].ok
        /\ pc = "exit" <=> exit_status # None

\* the emoji program failed on its second history call, after a first page
\* whose reactions it had counted: exit status 1, nothing printed
C3_Witness ==
    /\ program = "emoji"
    /\ pc = "exit"
    /\ exit_status = <<1>>
    /\ stdout = <<>>
    /\ emoji_counter # <<>>
    /\ Len(RequestsOf("conversations_history")) = 2
    /\ ~RequestsOf("conversations_history")[2].ok

-----------------------------------------------------------------------------
(* Time bounds *)

\* --date-from / --date-to: not given, or a calendar day around 1970-01-01
Days == {None} \cup {<<d>> : d \in (0 - MaxDay)..MaxDay}

\* the zone of the process: UTC, an hour east, five hours west
UtcOffsets == {0, 3600, 0 - 5 * 3600}

InitDates ==
    \/ \E inp \in BaseInputs : InitFrom(inp)
    \/ \E df \in Days, dt \in Days, tz \in UtcOffsets, p \in {"emoji", "count"} :
          InitFrom(Input(p, [DefaultArgs EXCEPT !.date_from = df, !.date_to = dt], tz,
                         DefaultListing, DefaultHistory))

SpecDates == InitDates /\ [][Next]_vars

(* C10: every history request carries oldest if and only if --date-from was
   given and latest if and only if --date-to was given; oldest is the
   timestamp of 00:00:00 of the from-date and latest that of 23:59:59 of
   the to-date in the zone of the process; whatever the date, one of
   timestamp 0 included. *)
C10_TimeBounds ==
    LET hreq == RequestsOf("conversations_history")
    IN  \A i \in 1..Len(hreq) :
            /\ hreq[i].oldest # None <=> args.date_from # None
            /\ hreq[i].latest # None <=> args.date_to # None
            /\ hreq[i].oldest # None =>
                  hreq[i].oldest = <<args.date_from[1] * 24 * 3600 - utcoffset>>
            /\ hreq[i].latest # None =>
                  hreq[i].latest = <<args.date_to[1] * 24 * 3600
                                     + 23 * 3600 + 59 * 60 + 59 - utcoffset>>

-----------------------------------------------------------------------------
(* --top *)

\* --top: not given, or 0..MaxTop
Tops == {None} \cup {<<n>> : n \in 0..MaxTop}

TopEmojiKinds ==
    {Kind(<<"U1">>, None, None, "none", <<r>>) :
        r \in {<<Reaction(<<"a">>, 1)>>, <<Reaction(<<"b">>, 1)>>,
               <<Reaction(<<"c">>, 2)>>, <<Reaction(<<"b">>, 1), Reaction(<<"a">>, 2)>>}}

TopActorKinds ==
    {Kind(<<"U1">>, None, None, "none", None), Kind(<<"U2">>, None, None, "none", None),
     Kind(None, <<"B1">>, None, "none", None)}

\* both programs under every --top over reports of up to MaxMsgs rows with
\* ties and counts in any order
InitTop ==
    \/ \E inp \in BaseInputs : InitFrom(inp)
    \/ \E ks \in SeqsUpTo(TopEmojiKinds, MaxMsgs), t \in Tops :
          InitFrom(Input("emoji", [DefaultArgs EXCEPT !.top = t], 0, DefaultListing,
                         HistoryPages(ks, <<Len(ks)>>, 1)))
    \/ \E ks \in SeqsUpTo(TopActorKinds, MaxMsgs), t \in Tops :
          InitFrom(Input("count", [DefaultArgs EXCEPT !.top = t, !.user = TRUE], 0,
                         DefaultListing, HistoryPages(ks, <<Len(ks)>>, 1)))

SpecTop == InitTop /\ [][Next]_vars

\* the report rows as <<count, text printed after the count>>, in the order
\* the program holds them
ReportRows ==
    IF program = "emoji"
    THEN [i \in 1..Len(emoji_counter) |->
            <<emoji_counter[i][2], <<" ", ":">> \o emoji_counter[i][1] \o <<":">>>>]
    ELSE [i \in 1..Len(results) |-> <<results[i][1], <<" ">> \o results[i][2]>>]

\* the place of row i in the stable ascending order by count: after every
\* row of a lower count and every earlier row of the same count
RankOf(rows, i) ==
    1 + Cardinality({j \in 1..Len(rows) :
                        rows[j][1] < rows[i][1] \/ (rows[j][1] = rows[i][1] /\ j < i)})

StableAscending(rows) ==
    [p \in 1..Len(rows) |-> rows[CHOOSE i \in 1..Len(rows) : RankOf(rows, i) = p]]

Min(a, b) == IF a < b THEN a ELSE b

(* C4: when the report has been printed: with --top N the output has
   exactly min(N, row_count) rows and is the reversal of the last
   min(N, row_count) rows of the stable ascending sort of the rows by count;
   without --top it is that sort. *)
C4_TopN ==
    pc = "exit" /\ exit_status = <<0>> =>
        LET asc == StableAscending(ReportRows)
            n == Len(asc)
            k == IF args.top = None THEN n ELSE Min(args.top[1], n)
            want == IF args.top = None THEN asc
                    ELSE [i \in 1..k |-> asc[n + 1 - i]]
        IN  /\ Len(stdout) = k
            /\ \A i \in 1..k : stdout[i] = Line(want[i][1], want[i][2])

=============================================================================
